---- MODULE Spec2Model ----
(***************************************************************************)
(* Model of Batch_Spatial_Join.py: the CoralGeoJoin tool of an ArcGIS Pro  *)
(* python toolbox.  The tool's handlers (updateParameters, execute) are    *)
(* modelled step by step; the geoprocessing calls they make are modelled   *)
(* by their documented effect on a store of feature layers.                *)
(*                                                                         *)
(* Strings are sequences of one-character strings, so that slicing,        *)
(* concatenation and the substring test are computed, not assumed.         *)
(***************************************************************************)
EXTENDS Integers, Sequences, FiniteSets, TLC

(***************************************************************************)
(* Bounds of the model.                                                    *)
(***************************************************************************)
MaxLayers == 3          \* polygon layers in the input workspace
NumTargetRows == 2      \* rows (points) of the target layer
MaxSelected == 1        \* entries the user ticks in "Fields to delete"
MaxLayerNameLen == 29   \* rename study: longest layer name
MaxFieldNameLen == 3    \* rename study: longest field name
NumLetters == 2         \* rename study: letters the names are spelled with
MaxRows == 8            \* recode study: rows of the scanned column
MaxDistinct == 7        \* recode study: distinct texts of the scanned column

(***************************************************************************)
(* Program constants.                                                      *)
(***************************************************************************)
NameLimit == 31         \* len(newName) > 31
KeptChars == 30         \* extra_characters = len(newName) - 30
MaxUnique == 6          \* len(unique_attributes) > 6
GdbSuffixLen == 4       \* workspace[-4:]
FirstCode == 1          \* i = 1

(***************************************************************************)
(* Python string operations.                                               *)
(***************************************************************************)
\* s[n:]  (0 <= n)
DropHead(s, n) == IF n >= Len(s) THEN <<>> ELSE SubSeq(s, n + 1, Len(s))

\* s[-n:]
LastChars(s, n) == IF n >= Len(s) THEN s ELSE SubSeq(s, Len(s) - n + 1, Len(s))

\* sub in s, for str operands
IsSubstring(sub, s) ==
    \E i \in 0..(Len(s) - Len(sub)) : SubSeq(s, i + 1, i + Len(sub)) = sub

\* positions of "." in s
DotPositions(s) == {i \in 1..Len(s) : s[i] = "."}

Max(S) == CHOOSE x \in S : \A y \in S : y <= x

Min(S) == CHOOSE x \in S : \A y \in S : x <= y

\* os.path.splitext(s)[0]: s without its last extension (a leading dot is no extension)
SplitextRoot(s) ==
    IF DotPositions(s) \ {1} = {} THEN s
    ELSE SubSeq(s, 1, Max(DotPositions(s)) - 1)

RECURSIVE JoinWith(_, _)
\* sep.join(list)
JoinWith(sep, list) ==
    IF list = <<>> THEN <<>>
    ELSE IF Len(list) = 1 THEN list[1]
    ELSE list[1] \o sep \o JoinWith(sep, Tail(list))

RECURSIVE Flatten(_)
\* concatenation of a sequence of sequences
Flatten(ss) == IF ss = <<>> THEN <<>> ELSE ss[1] \o Flatten(Tail(ss))

\* the elements of a sequence
Range(s) == {s[i] : i \in DOMAIN s}

(***************************************************************************)
(* Names used by the program.                                              *)
(***************************************************************************)
OBJECTID == <<"O","B","J","E","C","T","I","D">>
Shape == <<"S","h","a","p","e">>
Shape_Length == <<"S","h","a","p","e","_","L","e","n","g","t","h">>
Shape_Area == <<"S","h","a","p","e","_","A","r","e","a">>
Join_Count == <<"J","o","i","n","_","C","o","u","n","t">>
TARGET_FID == <<"T","A","R","G","E","T","_","F","I","D">>
DotGdb == <<".","g","d","b">>
DotShp == <<".","s","h","p">>
tempCoralJoin == <<"t","e","m","p","C","o","r","a","l","J","o","i","n">>
Digits == <<"0","1","2","3","4","5","6","7","8","9">>

\* the four names the tool never renames nor offers for deletion
IsReserved(field_name) ==
    ~ (/\ field_name # OBJECTID
       /\ field_name # Shape
       /\ field_name # Shape_Length
       /\ field_name # Shape_Area)

(***************************************************************************)
(* Host ordering of names (listings are alphabetical).                     *)
(***************************************************************************)
Alphabet ==
    <<".", "/", "0","1","2","3","4","5","6","7","8","9", ":", ";",
      "A","B","C","D","E","F","G","H","I","J","K","L","M",
      "N","O","P","Q","R","S","T","U","V","W","X","Y","Z", "_",
      "a","b","c","d","e","f","g","h","i","j","k","l","m",
      "n","o","p","q","r","s","t","u","v","w","x","y","z">>

CharRank(c) == CHOOSE i \in DOMAIN Alphabet : Alphabet[i] = c

\* a < b, lexicographically
NameBefore(a, b) ==
    LET differ == {i \in 1..Len(a) : i <= Len(b) /\ a[i] # b[i]}
    IN  IF differ = {} THEN Len(a) < Len(b)
        ELSE CharRank(a[Min(differ)]) < CharRank(b[Min(differ)])

\* the names of a set, in listing order
SortNames(S) ==
    [i \in 1..Cardinality(S) |->
        CHOOSE a \in S : Cardinality({b \in S : NameBefore(b, a)}) = i - 1]

(***************************************************************************)
(* Attribute values: None, a text, or a python int.                        *)
(***************************************************************************)
None == [t |-> "null", s |-> "", n |-> 0]
Str(x) == [t |-> "str", s |-> x, n |-> 0]
IntV(k) == [t |-> "int", s |-> "", n |-> k]

(***************************************************************************)
(* Feature layers and the store that holds them.                           *)
(*   layer  = [shapeType, wkid, geom, fields]                              *)
(*   geom   = one geometry per row, a set of locations: a point is a       *)
(*            singleton, a polygon the set of locations it covers          *)
(*   fields = sequence of [name, type, vals], vals one value per row       *)
(*   store  = [workspace path -> [layer name -> layer]]                    *)
(*   ref    = [dir, base]: a path to a layer; dir = <<>> for a bare name,  *)
(*            which the host resolves against env.workspace                *)
(***************************************************************************)
NoDir == <<>>

\* os.path.join(dir, base)
PathJoin(dir, base) == [dir |-> dir, base |-> base]

\* a bare layer name, as ListFeatureClasses returns it
Bare(base) == [dir |-> NoDir, base |-> base]

\* os.path.split(ref)[1]
Basename(ref) == ref.base

\* the host's resolution of a layer reference against env.workspace
Resolve(ws, ref) == IF ref.dir = NoDir THEN [dir |-> ws, base |-> ref.base] ELSE ref

Exists(store, r) == r.base \in DOMAIN store[r.dir]

Get(store, r) == store[r.dir][r.base]

Put(store, r, layer) ==
    [store EXCEPT ![r.dir] =
        [b \in (DOMAIN store[r.dir]) \cup {r.base} |->
            IF b = r.base THEN layer ELSE store[r.dir][b]]]

NumRows(layer) == Len(layer.geom)

FieldNames(layer) == [i \in DOMAIN layer.fields |-> layer.fields[i].name]

FieldNamed(layer, name) ==
    layer.fields[CHOOSE i \in DOMAIN layer.fields : layer.fields[i].name = name]

HasField(layer, name) == \E i \in DOMAIN layer.fields : layer.fields[i].name = name

(***************************************************************************)
(* Geoprocessing calls, by their effect on the store.                      *)
(***************************************************************************)
\* arcpy.ListFeatureClasses(feature_type=...) in workspace ws; "" lists every type
ListFeatureClasses(store, ws, feature_type) ==
    SortNames({b \in DOMAIN store[ws] :
                  feature_type = "" \/ store[ws][b].shapeType = feature_type})

\* arcpy.env.scratchGDB: the scratch workspace itself when that is a geodatabase,
\* else the scratch.gdb inside the scratch folder
ScratchGDB(scratchWorkspace) ==
    IF LastChars(scratchWorkspace, GdbSuffixLen) = DotGdb
    THEN scratchWorkspace
    ELSE scratchWorkspace \o <<"/","s","c","r","a","t","c","h">> \o DotGdb

\* arcpy.CopyFeatures_management(src, dst), overwriteOutput = True
CopyFeatures(store, src, dst) == Put(store, dst, Get(store, src))

\* arcpy.management.Project(src, dst, wkid)
Project(store, src, dst, wkid) == Put(store, dst, [Get(store, src) EXCEPT !.wkid = wkid])

\* arcpy.DeleteField_management(r, names)
DeleteField(store, r, names) ==
    LET layer == Get(store, r)
    IN  Put(store, r,
            [layer EXCEPT !.fields = SelectSeq(layer.fields, LAMBDA f : f.name \notin names)])

\* arcpy.AlterField_management(r, old, new, new)
AlterField(store, r, old, new) ==
    LET layer == Get(store, r)
    IN  Put(store, r,
            [layer EXCEPT !.fields =
                [i \in DOMAIN layer.fields |->
                    IF layer.fields[i].name = old
                    THEN [layer.fields[i] EXCEPT !.name = new]
                    ELSE layer.fields[i]]])

\* arcpy.CreateScratchName(prefix, workspace=ws): the first unused prefix + number
CreateScratchName(store, prefix, ws) ==
    LET free == {i \in DOMAIN Digits : (prefix \o <<Digits[i]>>) \notin DOMAIN store[ws]}
    IN  PathJoin(ws, prefix \o <<Digits[Min(free)]>>)

RECURSIVE SortInts(_)
\* the numbers of a set, ascending
SortInts(S) == IF S = {} THEN <<>> ELSE <<Min(S)>> \o SortInts(S \ {Min(S)})

\* the join rows of target row r: the rows of J whose geometry intersects it
Matches(T, J, r) == {j \in 1..NumRows(J) : T.geom[r] \cap J.geom[j] # {}}

\* the output rows of a spatial join, each [t: target row, j: joined row or 0],
\* join_type KEEP_ALL
JoinRows(T, J, join_operation) ==
    IF join_operation = "JOIN_ONE_TO_ONE"
    THEN [r \in 1..NumRows(T) |->
            [t |-> r, j |-> IF Matches(T, J, r) = {} THEN 0 ELSE Min(Matches(T, J, r))]]
    ELSE Flatten([r \in 1..NumRows(T) |->
            IF Matches(T, J, r) = {} THEN <<[t |-> r, j |-> 0]>>
            ELSE LET js == SortInts(Matches(T, J, r))
                 IN  [k \in DOMAIN js |-> [t |-> r, j |-> js[k]]]])

RECURSIVE UniqueFieldName(_, _)
\* the host's name for an output field whose name is taken: name_1
UniqueFieldName(used, name) ==
    IF name \notin used THEN name ELSE UniqueFieldName(used, name \o <<"_", "1">>)

RECURSIVE AppendFields(_, _)
\* fields followed by more, each renamed when its name is taken
AppendFields(fields, more) ==
    IF more = <<>> THEN fields
    ELSE AppendFields(
            Append(fields,
                   [Head(more) EXCEPT
                       !.name = UniqueFieldName(Range([i \in DOMAIN fields |-> fields[i].name]),
                                                Head(more).name)]),
            Tail(more))

\* arcpy.analysis.SpatialJoin(target, join, out, join_operation), join_type KEEP_ALL
SpatialJoin(store, target, join, out, join_operation) ==
    LET T == Get(store, target)
        J == Get(store, join)
        rows == JoinRows(T, J, join_operation)
        kept == [i \in DOMAIN T.fields |->
                    [T.fields[i] EXCEPT !.vals =
                        [k \in DOMAIN rows |->
                            IF T.fields[i].type = "OID" THEN IntV(k)
                            ELSE T.fields[i].vals[rows[k].t]]]]
        counts == [name |-> Join_Count, type |-> "Integer",
                   vals |-> [k \in DOMAIN rows |->
                       IF join_operation = "JOIN_ONE_TO_ONE"
                       THEN IntV(Cardinality(Matches(T, J, rows[k].t)))
                       ELSE IntV(IF rows[k].j = 0 THEN 0 ELSE 1)]]
        fids == [name |-> TARGET_FID, type |-> "Integer",
                 vals |-> [k \in DOMAIN rows |-> IntV(rows[k].t)]]
        attrs == SelectSeq(J.fields, LAMBDA f : f.type \notin {"OID", "Geometry"})
        joined == [i \in DOMAIN attrs |->
                    [attrs[i] EXCEPT !.vals =
                        [k \in DOMAIN rows |->
                            IF rows[k].j = 0 THEN None ELSE attrs[i].vals[rows[k].j]]]]
    IN  Put(store, out,
            [shapeType |-> T.shapeType, wkid |-> T.wkid,
             geom |-> [k \in DOMAIN rows |-> T.geom[rows[k].t]],
             fields |-> AppendFields(kept, <<counts, fids>> \o joined)])

(***************************************************************************)
(* The tool's own functions (closures of execute).                         *)
(***************************************************************************)
\* parameters[i].valueAsText of a text: python None, or a str
NoText == [none |-> TRUE, text |-> <<>>]
Text(s) == [none |-> FALSE, text |-> s]

\* valueAsText of a multivalue parameter: None when nothing is ticked, else the
\* ticked entries joined by ";"
MultiValueAsText(selected) ==
    IF selected = <<>> THEN NoText ELSE Text(JoinWith(<<";">>, selected))

\* updateParameters: key_string = key + ':' + value
KeyString(fc_name, field_name) == fc_name \o <<":">> \o field_name

\* updateParameters: the entries offered for one layer
LayerEntries(fc_name, layer) ==
    LET names == SelectSeq(FieldNames(layer), LAMBDA nm : ~ IsReserved(nm))
    IN  [i \in DOMAIN names |-> KeyString(fc_name, names[i])]

\* delete_join_fields: field_name in delete
InDelete(field_name, delete) == IsSubstring(field_name, delete.text)

\* delete_join_fields: the names it passes to DeleteField
FieldsDeleted(layer, delete) ==
    IF delete.none THEN {}
    ELSE {nm \in Range(FieldNames(layer)) : InDelete(nm, delete)}

\* delete_join_fields(feature, delete)
delete_join_fields(store, feature, delete) ==
    IF delete.none THEN store
    ELSE DeleteField(store, feature, FieldsDeleted(Get(store, feature), delete))

\* mutant: the name is cut to its head
NewName_KeepHead(feature_name, field_name) ==
    LET newName == feature_name \o field_name
    IN  IF Len(newName) > NameLimit
        THEN SubSeq(newName, 1, KeptChars)
        ELSE newName

\* change_join_field_names: newName = feature_name + field_name, cut to its tail
NewName(feature_name, field_name) ==
    LET newName == feature_name \o field_name
    IN  IF Len(newName) > NameLimit
        THEN DropHead(newName, Len(newName) - KeptChars)
        ELSE newName

\* change_join_field_names: the name a field has after the call
RenameOf(feature_name, field_name) ==
    IF IsReserved(field_name) THEN field_name ELSE NewName(feature_name, field_name)

RECURSIVE RenameFields(_, _, _, _)
\* change_join_field_names: the loop over the fields listed on entry;
\* yields [store, joinFields_str]
RenameFields(store, feature, fields, joinFields) ==
    IF fields = <<>> THEN [store |-> store, joinFields_str |-> joinFields]
    ELSE LET field == Head(fields) IN
         IF IsReserved(field.name)
         THEN RenameFields(store, feature, Tail(fields), joinFields)
         ELSE RenameFields(
                AlterField(store, feature, field.name,
                           RenameOf(Basename(feature), field.name)),
                feature, Tail(fields),
                IF field.type = "String"
                THEN Append(joinFields, RenameOf(Basename(feature), field.name))
                ELSE joinFields)

\* change_join_field_names(feature)
change_join_field_names(store, feature, joinFields) ==
    RenameFields(store, feature, Get(store, feature).fields, joinFields)

\* mutant: the join asks for one output row per match
coral_geo_join_OneToMany(store, coral, feature, scratch_name) ==
    DeleteField(SpatialJoin(store, coral, feature, scratch_name, "JOIN_ONE_TO_MANY"),
                scratch_name, {Join_Count, TARGET_FID})

\* coral_geo_join(coral, feature): SpatialJoin with the host's default
\* join_operation, then the bookkeeping fields dropped
coral_geo_join(store, coral, feature, scratch_name) ==
    DeleteField(SpatialJoin(store, coral, feature, scratch_name, "JOIN_ONE_TO_ONE"),
                scratch_name, {Join_Count, TARGET_FID})

(***************************************************************************)
(* The recode pass.  A python dict is a sequence of [key, value] in        *)
(* insertion order.                                                        *)
(***************************************************************************)
DictHas(d, key) == \E i \in DOMAIN d : d[i].key = key

DictGet(d, key) == d[CHOOSE i \in DOMAIN d : d[i].key = key].value

\* d[key] = value
DictSet(d, key, value) ==
    IF DictHas(d, key)
    THEN [i \in DOMAIN d |-> IF d[i].key = key THEN [key |-> key, value |-> value] ELSE d[i]]
    ELSE Append(d, [key |-> key, value |-> value])

RECURSIVE ScanUnique_OffByOne(_, _)
\* mutant: the field is abandoned at the sixth distinct value
ScanUnique_OffByOne(rows, unique_attributes) ==
    IF rows = <<>> THEN [abandoned |-> FALSE, unique |-> unique_attributes]
    ELSE LET seen == IF Head(rows) \notin Range(unique_attributes)
                     THEN Append(unique_attributes, Head(rows))
                     ELSE unique_attributes
         IN  IF Len(seen) >= MaxUnique
             THEN [abandoned |-> TRUE, unique |-> seen]
             ELSE ScanUnique_OffByOne(Tail(rows), seen)

RECURSIVE ScanUnique(_, _)
\* the SearchCursor loop: [abandoned, unique_attributes] when the loop ends
ScanUnique(rows, unique_attributes) ==
    IF rows = <<>> THEN [abandoned |-> FALSE, unique |-> unique_attributes]
    ELSE LET seen == IF Head(rows) \notin Range(unique_attributes)
                     THEN Append(unique_attributes, Head(rows))
                     ELSE unique_attributes
         IN  IF Len(seen) > MaxUnique
             THEN [abandoned |-> TRUE, unique |-> seen]
             ELSE ScanUnique(Tail(rows), seen)

\* mutant: the counter is not advanced
RecodeRow_SameCode(value, attributes, i) ==
    IF value = None
    THEN [attributes |-> DictSet(attributes, None, 0), i |-> i, written |-> Str("0")]
    ELSE IF ~ DictHas(attributes, value)
    THEN [attributes |-> DictSet(attributes, value, i), i |-> i, written |-> IntV(i)]
    ELSE [attributes |-> attributes, i |-> i, written |-> IntV(DictGet(attributes, value))]

\* one row of the UpdateCursor loop: [attributes, i, written]
RecodeRow(value, attributes, i) ==
    IF value = None
    THEN [attributes |-> DictSet(attributes, None, 0), i |-> i, written |-> Str("0")]
    ELSE IF ~ DictHas(attributes, value)
    THEN [attributes |-> DictSet(attributes, value, i), i |-> i + 1, written |-> IntV(i)]
    ELSE [attributes |-> attributes, i |-> i, written |-> IntV(DictGet(attributes, value))]

RECURSIVE RewriteRows(_, _, _, _)
\* the UpdateCursor loop: [attributes, vals] when the loop ends
RewriteRows(rows, attributes, i, done) ==
    IF rows = <<>> THEN [attributes |-> attributes, vals |-> done]
    ELSE LET step == RecodeRow(Head(rows), attributes, i)
         IN  RewriteRows(Tail(rows), step.attributes, step.i, Append(done, step.written))

\* the body of "for field in joinFields_str" on one column:
\* [recoded, vals, attributes]
RecodeColumn(vals) ==
    IF ScanUnique(vals, <<>>).abandoned
    THEN [recoded |-> FALSE, vals |-> vals, attributes |-> <<>>]
    ELSE LET out == RewriteRows(vals, <<>>, FirstCode, <<>>)
         IN  [recoded |-> TRUE, vals |-> out.vals, attributes |-> out.attributes]

(***************************************************************************)
(* The data the tool is run on.                                            *)
(***************************************************************************)
WsGdb == <<"w", ".", "g", "d", "b">>          \* a file geodatabase workspace
WsFolder == <<"w">>                           \* a folder of shapefiles
TargetDB == <<"t", ".", "g", "d", "b">>       \* where the target layer lives
OutDB == <<"o", ".", "g", "d", "b">>          \* an output location elsewhere
AllPaths == {WsGdb, WsFolder, ScratchGDB(WsFolder), TargetDB, OutDB}

TargetRef == PathJoin(TargetDB, <<"p", "t", "s">>)
OutName == <<"o", "u", "t">>

OidField(n) == [name |-> OBJECTID, type |-> "OID", vals |-> [i \in 1..n |-> IntV(i)]]
ShapeField(n) == [name |-> Shape, type |-> "Geometry", vals |-> [i \in 1..n |-> None]]

\* the target point layer: one point per location
TargetLayer ==
    [shapeType |-> "Point", wkid |-> "WGS84",
     geom |-> [r \in 1..NumTargetRows |-> {r}],
     fields |-> <<OidField(NumTargetRows), ShapeField(NumTargetRows),
                  [name |-> <<"i", "d">>, type |-> "String",
                   vals |-> [r \in 1..NumTargetRows |-> Str("p")]]>>]

\* the polygon layers a workspace may hold: base name and layer
Catalog ==
    << [base |-> <<"a">>,
        layer |-> [shapeType |-> "Polygon", wkid |-> "WGS84",
                   geom |-> <<{1}, {1}>>,
                   fields |-> <<OidField(2), ShapeField(2),
                                [name |-> <<"b", "c">>, type |-> "String",
                                 vals |-> <<Str("x"), Str("y")>>],
                                [name |-> <<"c">>, type |-> "String",
                                 vals |-> <<Str("u"), None>>]>>]],
       [base |-> <<"a", "b">>,
        layer |-> [shapeType |-> "Polygon", wkid |-> "WebMercator",
                   geom |-> <<{1}, 2..NumTargetRows>>,
                   fields |-> <<OidField(2), ShapeField(2),
                                [name |-> <<"c">>, type |-> "String",
                                 vals |-> <<Str("x"), Str("y")>>]>>]],
       [base |-> <<"b">>,
        layer |-> [shapeType |-> "Polygon", wkid |-> "WGS84",
                   geom |-> <<{2}, {1, 2}>>,
                   fields |-> <<OidField(2), ShapeField(2),
                                [name |-> <<"n">>, type |-> "Double",
                                 vals |-> <<IntV(5), IntV(7)>>]>>]],
       [base |-> <<"c">>,
        layer |-> [shapeType |-> "Polygon", wkid |-> "WebMercator",
                   geom |-> <<1..NumTargetRows>>,
                   fields |-> <<OidField(1), ShapeField(1),
                                [name |-> <<"d">>, type |-> "String",
                                 vals |-> <<Str("z")>>]>>]] >>

\* the name a catalog layer has in a workspace: a shapefile in a folder
StoredName(ws, base) == IF LastChars(ws, GdbSuffixLen) = DotGdb THEN base ELSE base \o DotShp

\* a workspace holding the catalog layers of chosen
WorkspaceOf(ws, chosen) ==
    [b \in {StoredName(ws, Catalog[i].base) : i \in chosen} |->
        Catalog[CHOOSE i \in chosen : StoredName(ws, Catalog[i].base) = b].layer]

Empty == [b \in {} |-> None]

InitialStore(ws, chosen) ==
    [p \in AllPaths |->
        IF p = ws THEN WorkspaceOf(ws, chosen)
        ELSE IF p = TargetDB THEN [b \in {TargetRef.base} |-> TargetLayer]
        ELSE Empty]

VARIABLES
    store,                \* the layers on disk
    store0,               \* the layers on disk when the tool was opened
    workspace,            \* parameters[0]
    corals_output,        \* parameters[2]
    selected,             \* parameters[3]: the entries ticked
    fields_to_delete,     \* parameters[3].valueAsText
    update_fields,        \* parameters[4].valueAsText
    filterList,           \* parameters[3].filter.list
    extension,            \* arcpy.CheckExtension("Spatial")
    pc,                   \* position in the tool
    exc,                  \* the exception being raised, "" for none
    envWorkspace,         \* arcpy.env.workspace
    envScratchWorkspace,  \* arcpy.env.scratchWorkspace
    features, numFeatures, convIdx, counter, fc, corals_input,
    coralWKID, joinFields_str, fieldIdx,
    dictLog,              \* the data dictionary written by AddMessage
    errors,               \* the handlers that ran, by AddError
    trace,                \* the steps performed, in order
    joinCalls,            \* the arguments of each SpatialJoin
    deleteCalls,          \* the layer and names of each delete_join_fields
    rnA, rnB,             \* rename study: two fields renamed into one output
    rcCol, rcPc, rcOut,   \* recode study: a column, and the pass over it
    rcLog                 \* recode study: the dictionary written

toolVars ==
    <<store, store0, workspace, corals_output, selected, fields_to_delete,
      update_fields, filterList, extension, pc, exc, envWorkspace,
      envScratchWorkspace, features, numFeatures, convIdx, counter, fc,
      corals_input, coralWKID, joinFields_str, fieldIdx, dictLog, errors,
      trace, joinCalls, deleteCalls>>

renameVars == <<rnA, rnB>>

recodeVars == <<rcCol, rcPc, rcOut, rcLog>>

vars == <<toolVars, renameVars, recodeVars>>

runVars ==
    <<envWorkspace, envScratchWorkspace, features, numFeatures, convIdx, counter,
      fc, corals_input, coralWKID, joinFields_str, fieldIdx>>

paramVars ==
    <<workspace, corals_output, selected, fields_to_delete, update_fields,
      filterList, extension, store0>>

NoRename == [layer |-> <<>>, field |-> <<>>, newName |-> <<>>, renamed |-> FALSE]

NoRecode == [recoded |-> FALSE, vals |-> <<>>, attributes |-> <<>>]

RenameIdle == rnA = NoRename /\ rnB = NoRename

RecodeIdle == rcCol = <<>> /\ rcPc = "idle" /\ rcOut = NoRecode /\ rcLog = <<>>

ToolIdle ==
    /\ store = InitialStore(WsGdb, {}) /\ store0 = store
    /\ workspace = WsGdb /\ corals_output = PathJoin(OutDB, OutName)
    /\ selected = <<>> /\ fields_to_delete = NoText /\ update_fields = "No"
    /\ filterList = <<>> /\ extension = "Available"
    /\ pc = "idle" /\ exc = ""
    /\ envWorkspace = NoDir /\ envScratchWorkspace = NoDir
    /\ features = <<>> /\ numFeatures = 0 /\ convIdx = 1 /\ counter = 1
    /\ fc = Bare(<<>>) /\ corals_input = TargetRef /\ coralWKID = ""
    /\ joinFields_str = <<>> /\ fieldIdx = 1 /\ dictLog = <<>> /\ errors = <<>>
    /\ trace = <<>> /\ joinCalls = <<>> /\ deleteCalls = <<>>

(***************************************************************************)
(* The tool dialog: updateParameters, and the user's choice.               *)
(***************************************************************************)
IsGdb(ws) == IsSubstring(DotGdb, LastChars(ws, GdbSuffixLen))

\* updateParameters: the list offered in "Fields to delete"
OfferedFields(st, ws) ==
    LET fcs == ListFeatureClasses(st, ws, "Polygon")
    IN  Flatten([i \in DOMAIN fcs |-> LayerEntries(fcs[i], st[ws][fcs[i]])])

Init ==
    /\ \E ws \in {WsGdb, WsFolder} :
       \E chosen \in {c \in SUBSET (DOMAIN Catalog) : Cardinality(c) <= MaxLayers} :
       \E out \in {OutDB, ws} :
          /\ workspace = ws
          /\ store = InitialStore(ws, chosen)
          /\ corals_output = PathJoin(out, OutName)
    /\ store0 = store
    /\ extension \in {"Available", "Unavailable"}
    /\ update_fields \in {"Yes", "No"}
    /\ selected = <<>> /\ fields_to_delete = NoText /\ filterList = <<>>
    /\ pc = "dialog" /\ exc = ""
    /\ envWorkspace = NoDir /\ envScratchWorkspace = NoDir
    /\ features = <<>> /\ numFeatures = 0 /\ convIdx = 1 /\ counter = 1
    /\ fc = Bare(<<>>) /\ corals_input = TargetRef /\ coralWKID = ""
    /\ joinFields_str = <<>> /\ fieldIdx = 1 /\ dictLog = <<>> /\ errors = <<>>
    /\ trace = <<>> /\ joinCalls = <<>> /\ deleteCalls = <<>>
    /\ RenameIdle /\ RecodeIdle

Step(name) == trace' = Append(trace, [step |-> name, at |-> pc, layer |-> counter])

Raise(kind) == pc' = "except" /\ exc' = kind

\* updateParameters, the workspace parameter altered
UpdateParameters ==
    /\ pc = "dialog"
    /\ envWorkspace' = workspace
    /\ filterList' = OfferedFields(store, workspace)
    /\ pc' = "select"
    /\ UNCHANGED <<store, store0, workspace, corals_output, selected, fields_to_delete,
                   update_fields, extension, exc, envScratchWorkspace, features,
                   numFeatures, convIdx, counter, fc, corals_input, coralWKID,
                   joinFields_str, fieldIdx, dictLog, errors, trace, joinCalls,
                   deleteCalls, renameVars, recodeVars>>

\* the user ticks entries of the list and runs the tool
SelectFields ==
    /\ pc = "select"
    /\ \E idx \in {x \in SUBSET (DOMAIN filterList) : Cardinality(x) <= MaxSelected} :
          /\ selected' = [k \in 1..Cardinality(idx) |-> filterList[SortInts(idx)[k]]]
          /\ fields_to_delete' = MultiValueAsText(selected')
    /\ pc' = "execute"
    /\ UNCHANGED <<store, store0, workspace, corals_output, update_fields, filterList,
                   extension, exc, runVars, dictLog, errors, trace, joinCalls,
                   deleteCalls, renameVars, recodeVars>>

(***************************************************************************)
(* execute: the try block.                                                 *)
(***************************************************************************)
\* lines 127-137
SetEnvironment ==
    /\ pc = "execute"
    /\ envWorkspace' = workspace
    /\ envScratchWorkspace' = workspace
    /\ pc' = "list"
    /\ Step("SetEnvironment")
    /\ UNCHANGED <<store, paramVars, exc, features, numFeatures, convIdx, counter, fc,
                   corals_input, coralWKID, joinFields_str, fieldIdx, dictLog, errors,
                   joinCalls, deleteCalls, renameVars, recodeVars>>

\* lines 139-140
ListFeatures ==
    /\ pc = "list"
    /\ features' = ListFeatureClasses(store, envWorkspace, "Polygon")
    /\ numFeatures' = Len(features')
    /\ pc' = "check_extension"
    /\ Step("ListFeatures")
    /\ UNCHANGED <<store, paramVars, exc, envWorkspace, envScratchWorkspace, convIdx,
                   counter, fc, corals_input, coralWKID, joinFields_str, fieldIdx,
                   dictLog, errors, joinCalls, deleteCalls, renameVars, recodeVars>>

\* lines 143-146: sys.exit() raises SystemExit
CheckExtension ==
    /\ pc = "check_extension"
    /\ IF extension # "Available"
       THEN Raise("SystemExit")
       ELSE pc' = "check_features" /\ exc' = exc
    /\ Step("CheckExtension")
    /\ UNCHANGED <<store, paramVars, runVars, dictLog, errors, joinCalls, deleteCalls,
                   renameVars, recodeVars>>

\* lines 148-151
CheckFeatures ==
    /\ pc = "check_features"
    /\ IF numFeatures = 0
       THEN Raise("SystemExit")
       ELSE pc' = "describe" /\ exc' = exc
    /\ Step("CheckFeatures")
    /\ UNCHANGED <<store, paramVars, runVars, dictLog, errors, joinCalls, deleteCalls,
                   renameVars, recodeVars>>

\* lines 154-157
DescribeTarget ==
    /\ pc = "describe"
    /\ coralWKID' = Get(store, Resolve(envWorkspace, corals_input)).wkid
    /\ joinFields_str' = <<>>
    /\ pc' = "convert"
    /\ Step("DescribeTarget")
    /\ UNCHANGED <<store, paramVars, exc, envWorkspace, envScratchWorkspace, features,
                   numFeatures, convIdx, counter, fc, corals_input, fieldIdx, dictLog,
                   errors, joinCalls, deleteCalls, renameVars, recodeVars>>

\* lines 222-226: one shapefile copied into the scratch geodatabase
ConvertShapefile ==
    /\ pc = "convert"
    /\ ~ IsGdb(workspace)
    /\ convIdx <= Len(features)
    /\ LET shapefile == features[convIdx]
           outFeatureClass == PathJoin(ScratchGDB(envScratchWorkspace),
                                       SplitextRoot(shapefile))
       IN  store' = IF Get(store, Resolve(envWorkspace, Bare(shapefile))).shapeType = "Polygon"
                    THEN CopyFeatures(store, Resolve(envWorkspace, Bare(shapefile)),
                                      outFeatureClass)
                    ELSE store
    /\ convIdx' = convIdx + 1
    /\ Step("ConvertShapefile")
    /\ UNCHANGED <<paramVars, pc, exc, envWorkspace, envScratchWorkspace, features,
                   numFeatures, counter, fc, corals_input, coralWKID, joinFields_str,
                   fieldIdx, dictLog, errors, joinCalls, deleteCalls, renameVars,
                   recodeVars>>

\* lines 222, 227-232: the workspace and the list of features updated
ConvertDone ==
    /\ pc = "convert"
    /\ IF IsGdb(workspace)
       THEN envWorkspace' = envWorkspace /\ features' = features
       ELSE /\ convIdx > Len(features)
            /\ envWorkspace' = ScratchGDB(envScratchWorkspace)
            /\ features' = ListFeatureClasses(store, envWorkspace', "Polygon")
    /\ pc' = "loop"
    /\ Step("ConvertDone")
    /\ UNCHANGED <<store, paramVars, exc, envScratchWorkspace, numFeatures, convIdx,
                   counter, fc, corals_input, coralWKID, joinFields_str, fieldIdx,
                   dictLog, errors, joinCalls, deleteCalls, renameVars, recodeVars>>

\* change_spatial_reference(feature): [store, result]
change_spatial_reference(st, feature, coral_WKID, scratchGDB, loop_fc) ==
    IF coral_WKID # Get(st, feature).wkid
    THEN LET feature_project == PathJoin(scratchGDB, Basename(loop_fc) \o <<"_">>)
         IN  [store |-> Project(st, feature, feature_project, coral_WKID),
              result |-> feature_project]
    ELSE [store |-> st, result |-> feature]

\* lines 234-235: the next feature of the list, or the end of the loop
LoopNext ==
    /\ pc = "loop"
    /\ IF counter > Len(features)
       THEN pc' = "final_copy" /\ fc' = fc /\ counter' = counter
       ELSE /\ fc' = Bare(features[counter])
            /\ IF Get(store, Resolve(envWorkspace, fc')).shapeType = "Polygon"
               THEN pc' = "copy" /\ counter' = counter
               ELSE pc' = "loop" /\ counter' = counter + 1
    /\ Step("LoopNext")
    /\ UNCHANGED <<store, paramVars, exc, envWorkspace, envScratchWorkspace, features,
                   numFeatures, convIdx, corals_input, coralWKID, joinFields_str,
                   fieldIdx, dictLog, errors, joinCalls, deleteCalls, renameVars,
                   recodeVars>>

\* lines 237-240
CopyToScratch ==
    /\ pc = "copy"
    /\ IF IsGdb(workspace)
       THEN LET feature_copy == PathJoin(ScratchGDB(envScratchWorkspace), Basename(fc))
            IN  /\ store' = CopyFeatures(store, Resolve(envWorkspace, fc), feature_copy)
                /\ fc' = feature_copy
       ELSE store' = store /\ fc' = fc
    /\ pc' = "project"
    /\ Step("CopyToScratch")
    /\ UNCHANGED <<paramVars, exc, envWorkspace, envScratchWorkspace, features,
                   numFeatures, convIdx, counter, corals_input, coralWKID,
                   joinFields_str, fieldIdx, dictLog, errors, joinCalls, deleteCalls,
                   renameVars, recodeVars>>

\* line 242: the value returned is not used
ChangeSpatialReference ==
    /\ pc = "project"
    /\ store' = change_spatial_reference(store, Resolve(envWorkspace, fc), coralWKID,
                                         ScratchGDB(envScratchWorkspace), fc).store
    /\ pc' = "delete"
    /\ Step("ChangeSpatialReference")
    /\ UNCHANGED <<paramVars, exc, runVars, dictLog, errors, joinCalls, deleteCalls,
                   renameVars, recodeVars>>

\* line 245
DeleteJoinFields ==
    /\ pc = "delete"
    /\ store' = delete_join_fields(store, Resolve(envWorkspace, fc), fields_to_delete)
    /\ deleteCalls' = Append(deleteCalls,
            [layer |-> Basename(fc),
             had |-> Range(FieldNames(Get(store, Resolve(envWorkspace, fc)))),
             has |-> Range(FieldNames(Get(store', Resolve(envWorkspace, fc))))])
    /\ pc' = "rename"
    /\ Step("DeleteJoinFields")
    /\ UNCHANGED <<paramVars, exc, runVars, dictLog, errors, joinCalls, renameVars,
                   recodeVars>>

\* line 246
ChangeJoinFieldNames ==
    /\ pc = "rename"
    /\ LET out == change_join_field_names(store, Resolve(envWorkspace, fc), joinFields_str)
       IN  store' = out.store /\ joinFields_str' = out.joinFields_str
    /\ pc' = "join"
    /\ Step("ChangeJoinFieldNames")
    /\ UNCHANGED <<paramVars, exc, envWorkspace, envScratchWorkspace, features,
                   numFeatures, convIdx, counter, fc, corals_input, coralWKID, fieldIdx,
                   dictLog, errors, joinCalls, deleteCalls, renameVars, recodeVars>>

\* lines 251-256
CoralGeoJoin ==
    /\ pc = "join"
    /\ LET scratch_name == CreateScratchName(store, tempCoralJoin,
                                             ScratchGDB(envScratchWorkspace))
           coral == Resolve(envWorkspace, corals_input)
           feature == Resolve(envWorkspace, fc)
       IN  /\ store' = coral_geo_join(store, coral, feature, scratch_name)
           /\ corals_input' = scratch_name
           /\ joinCalls' = Append(joinCalls,
                  [coral |-> coral, feature |-> feature,
                   coral_wkid |-> Get(store, coral).wkid,
                   feature_wkid |-> Get(store, feature).wkid,
                   rows |-> NumRows(Get(store', scratch_name))])
    /\ counter' = counter + 1
    /\ pc' = "loop"
    /\ Step("CoralGeoJoin")
    /\ UNCHANGED <<paramVars, exc, envWorkspace, envScratchWorkspace, features,
                   numFeatures, convIdx, fc, coralWKID, joinFields_str, fieldIdx,
                   dictLog, errors, deleteCalls, renameVars, recodeVars>>

\* lines 259-263
FinalCopy ==
    /\ pc = "final_copy"
    /\ store' = CopyFeatures(store, Resolve(envWorkspace, corals_input), corals_output)
    /\ pc' = IF update_fields = "Yes" THEN "recode" ELSE "finally"
    /\ fieldIdx' = 1
    /\ Step("FinalCopy")
    /\ UNCHANGED <<paramVars, exc, envWorkspace, envScratchWorkspace, features,
                   numFeatures, convIdx, counter, fc, corals_input, coralWKID,
                   joinFields_str, dictLog, errors, joinCalls, deleteCalls, renameVars,
                   recodeVars>>

\* lines 298-301: the dictionary of a recoded field written to the messages
LogAfter(log, field, out) ==
    IF out.recoded
    THEN Append(log, [field |-> field, attributes |-> out.attributes])
    ELSE log

\* a layer with the values of one field replaced
WithColumn(layer, name, vals) ==
    [layer EXCEPT !.fields =
        [i \in DOMAIN layer.fields |->
            IF i = (CHOOSE k \in DOMAIN layer.fields : layer.fields[k].name = name)
            THEN [layer.fields[i] EXCEPT !.vals = vals]
            ELSE layer.fields[i]]]

\* lines 268-301: one field of joinFields_str
RecodeField ==
    /\ pc = "recode"
    /\ fieldIdx <= Len(joinFields_str)
    /\ LET field == joinFields_str[fieldIdx]
           layer == Get(store, corals_output)
       IN  IF ~ HasField(layer, field)
           THEN /\ Raise("Exception")
                /\ UNCHANGED <<store, dictLog, fieldIdx>>
           ELSE LET out == RecodeColumn(FieldNamed(layer, field).vals)
                IN  /\ store' = Put(store, corals_output, WithColumn(layer, field, out.vals))
                    /\ dictLog' = LogAfter(dictLog, field, out)
                    /\ fieldIdx' = fieldIdx + 1
                    /\ pc' = pc /\ exc' = exc
    /\ Step("RecodeField")
    /\ UNCHANGED <<paramVars, envWorkspace, envScratchWorkspace, features, numFeatures,
                   convIdx, counter, fc, corals_input, coralWKID, joinFields_str, errors,
                   joinCalls, deleteCalls, renameVars, recodeVars>>

\* lines 302-303: the loop over joinFields_str has ended
RecodeDone ==
    /\ pc = "recode"
    /\ fieldIdx > Len(joinFields_str)
    /\ pc' = "finally"
    /\ Step("RecodeDone")
    /\ UNCHANGED <<store, paramVars, exc, runVars, dictLog, errors, joinCalls,
                   deleteCalls, renameVars, recodeVars>>

\* the steps of the try block that call the geoprocessing engine
HostSteps ==
    {"list", "describe", "convert", "copy", "project", "delete", "rename", "join",
     "final_copy", "recode"}

\* a geoprocessing call raises arcpy.ExecuteError, or python raises anything else
HostFailure ==
    /\ pc \in HostSteps
    /\ \E kind \in {"ExecuteError", "Exception"} : Raise(kind)
    /\ Step("HostFailure")
    /\ UNCHANGED <<store, paramVars, runVars, dictLog, errors, joinCalls, deleteCalls,
                   renameVars, recodeVars>>

(***************************************************************************)
(* execute: the handlers and the finally block.                            *)
(***************************************************************************)
\* mutant: the error is handled inside the loop, which goes on with the next layer
ExceptExecuteError_Resume ==
    /\ pc = "except"
    /\ exc = "ExecuteError"
    /\ errors' = Append(errors, "ExecuteError")
    /\ pc' = "loop"
    /\ counter' = counter + 1
    /\ exc' = ""
    /\ Step("ExceptExecuteError")
    /\ UNCHANGED <<store, paramVars, envWorkspace, envScratchWorkspace, features,
                   numFeatures, convIdx, fc, corals_input, coralWKID, joinFields_str,
                   fieldIdx, dictLog, joinCalls, deleteCalls, renameVars, recodeVars>>

\* lines 308-310
ExceptExecuteError ==
    /\ pc = "except"
    /\ exc = "ExecuteError"
    /\ errors' = Append(errors, "ExecuteError")
    /\ pc' = "finally"
    /\ exc' = ""
    /\ Step("ExceptExecuteError")
    /\ UNCHANGED <<store, paramVars, runVars, dictLog, joinCalls, deleteCalls,
                   renameVars, recodeVars>>

\* lines 312-327: the bare except, which catches SystemExit too
ExceptOther ==
    /\ pc = "except"
    /\ exc # "ExecuteError"
    /\ errors' = Append(errors, exc)
    /\ pc' = "finally"
    /\ exc' = ""
    /\ Step("ExceptOther")
    /\ UNCHANGED <<store, paramVars, runVars, dictLog, joinCalls, deleteCalls,
                   renameVars, recodeVars>>

\* mutant: the cleanup lists the polygon layers only
ScratchFeatures_PolygonOnly(st, ws) == ListFeatureClasses(st, ws, "Polygon")

\* line 334: arcpy.ListFeatureClasses()
ScratchFeatures(st, ws) == ListFeatureClasses(st, ws, "")

\* lines 335-336: arcpy.Delete_management on every layer listed
DeleteAll(st, ws, scratch_features) ==
    [st EXCEPT ![ws] = [b \in (DOMAIN st[ws]) \ Range(scratch_features) |-> st[ws][b]]]

\* lines 330-341
Finally ==
    /\ pc = "finally"
    /\ envWorkspace' = ScratchGDB(envScratchWorkspace)
    /\ store' = DeleteAll(store, envWorkspace', ScratchFeatures(store, envWorkspace'))
    /\ pc' = "done"
    /\ Step("Finally")
    /\ UNCHANGED <<paramVars, exc, envScratchWorkspace, features, numFeatures, convIdx,
                   counter, fc, corals_input, coralWKID, joinFields_str, fieldIdx,
                   dictLog, errors, joinCalls, deleteCalls, renameVars, recodeVars>>

Next ==
    \/ UpdateParameters
    \/ SelectFields
    \/ SetEnvironment
    \/ ListFeatures
    \/ CheckExtension
    \/ CheckFeatures
    \/ DescribeTarget
    \/ ConvertShapefile
    \/ ConvertDone
    \/ LoopNext
    \/ CopyToScratch
    \/ ChangeSpatialReference
    \/ DeleteJoinFields
    \/ ChangeJoinFieldNames
    \/ CoralGeoJoin
    \/ FinalCopy
    \/ RecodeField
    \/ RecodeDone
    \/ HostFailure
    \/ ExceptExecuteError
    \/ ExceptOther
    \/ Finally

Spec == Init /\ [][Next]_vars

(***************************************************************************)
(* Rename study: change_join_field_names applied to two fields that end    *)
(* up in one output, over names of every length around the limit.          *)
(***************************************************************************)
Letters ==
    <<"a","b","c","d","e","f","g","h","i","j","k","l","m",
      "n","o","p","q","r","s","t","u","v","w","x","y","z">>

\* a name of n letters, spelled cyclically from the k-th letter on
Spelled(k, n) == [i \in 1..n |-> Letters[((k + i - 1) % NumLetters) + 1]]

LayerNames == {Spelled(0, n) : n \in 1..MaxLayerNameLen}

FieldNameSet ==
    {Spelled(k, n) : k \in 0..(NumLetters - 1), n \in 1..MaxFieldNameLen}
        \cup {OBJECTID, Shape, Shape_Length, Shape_Area}

\* change_join_field_names on one field of one layer
Renamed(feature_name, field_name) ==
    [layer |-> feature_name, field |-> field_name,
     newName |-> RenameOf(feature_name, field_name),
     renamed |-> ~ IsReserved(field_name)]

RenameInit == ToolIdle /\ RecodeIdle /\ RenameIdle

RenameFirst ==
    /\ rnA = NoRename
    /\ \E l \in LayerNames, f \in FieldNameSet : rnA' = Renamed(l, f)
    /\ UNCHANGED <<rnB, toolVars, recodeVars>>

\* another field: of the same layer, or of another layer
RenameSecond ==
    /\ rnA # NoRename
    /\ rnB = NoRename
    /\ \E l \in LayerNames, f \in FieldNameSet :
          /\ <<l, f>> # <<rnA.layer, rnA.field>>
          /\ rnB' = Renamed(l, f)
    /\ UNCHANGED <<rnA, toolVars, recodeVars>>

RenameNext == RenameFirst \/ RenameSecond

SpecRename == RenameInit /\ [][RenameNext]_vars

(***************************************************************************)
(* Recode study: the body of the recode loop on one column.                *)
(***************************************************************************)
Texts == <<"t1", "t2", "t3", "t4", "t5", "t6", "t7", "t8", "t9", "t10">>

\* a column of n rows cycling through d texts from the r-th on, None in the
\* rows of nulls
Column(n, d, r, nulls) ==
    [i \in 1..n |-> IF i \in nulls THEN None ELSE Str(Texts[((r + i - 1) % d) + 1])]

Columns ==
    {Column(n, d, r, nulls) :
        n \in 1..MaxRows, d \in 1..MaxDistinct, r \in 0..(MaxDistinct - 1),
        nulls \in {{}} \cup {{q, q + 2} : q \in 1..MaxRows}}

RecodeInit ==
    /\ ToolIdle /\ RenameIdle
    /\ rcCol \in Columns
    /\ rcPc = "recode" /\ rcOut = NoRecode /\ rcLog = <<>>

\* lines 268-301 for the field whose values are rcCol
RecodeOne ==
    /\ rcPc = "recode"
    /\ rcOut' = RecodeColumn(rcCol)
    /\ rcLog' = LogAfter(rcLog, <<"f">>, rcOut')
    /\ rcPc' = "done"
    /\ UNCHANGED <<rcCol, toolVars, renameVars>>

RecodeNext == RecodeOne

SpecRecode == RecodeInit /\ [][RecodeNext]_vars

(***************************************************************************)
(* Properties.                                                             *)
(***************************************************************************)
StepsDone == {trace[i].step : i \in DOMAIN trace}

Handlers == {"ExceptExecuteError", "ExceptOther"}

TargetRows == NumRows(Get(store0, TargetRef))

\* the scratch geodatabase of the run
RunScratch == ScratchGDB(workspace)

\* C1: when execute has returned, whatever the exit path (the end of the try
\* block, sys.exit in a preflight check, an ExecuteError, any other exception),
\* the finally block was its last step and the scratch geodatabase holds no
\* layer; an exception is always on its way to a handler
C1_CleanupOnEveryExit ==
    /\ pc = "done" =>
          /\ trace[Len(trace)].step = "Finally"
          /\ DOMAIN store[RunScratch] = {}
          /\ exc = ""
    /\ exc # "" => pc = "except"
    /\ errors # <<>> => pc \in {"finally", "done"}

\* C1 witness: a run that failed after a join had left its result in the scratch
\* geodatabase has returned
C1_Witness ==
    /\ pc = "done"
    /\ errors # <<>>
    /\ Len(joinCalls) >= 1
    /\ "HostFailure" \in StepsDone

\* C2: every layer handed to the spatial join has the target's spatial reference
C2_JoinedInTargetReference ==
    \A i \in DOMAIN joinCalls : joinCalls[i].feature_wkid = coralWKID

\* the user ticked the entry layer:field (the layer listed with or without .shp)
Ticked(base, field_name) ==
    \E k \in DOMAIN selected :
        selected[k] \in {KeyString(base, field_name),
                         KeyString(base \o DotShp, field_name)}

\* C3: delete_join_fields removes a field of a layer's working copy if and only
\* if the user ticked that layer's entry for it; nothing ticked, nothing removed
C3_DeletesExactlyTicked ==
    \A i \in DOMAIN deleteCalls :
        \A f \in deleteCalls[i].had :
            (f \notin deleteCalls[i].has) <=> Ticked(deleteCalls[i].layer, f)

\* the number of polygons of the joined layers that match target row r
MatchesInAll(r) ==
    LET T == Get(store0, TargetRef)
        names == ListFeatureClasses(store0, workspace, "Polygon")
        RECURSIVE Total(_)
        Total(k) == IF k = 0 THEN 0
                    ELSE Cardinality(Matches(T, store0[workspace][names[k]], r))
                            + Total(k - 1)
    IN  Total(Len(names))

RECURSIVE ClaimedRows(_)
\* the sum, over the first n target rows, of the matches, 1 for a row with none
ClaimedRows(n) ==
    IF n = 0 THEN 0
    ELSE (IF MatchesInAll(n) = 0 THEN 1 ELSE MatchesInAll(n)) + ClaimedRows(n - 1)

\* C6, as claimed: when every layer is joined, the running result has one row
\* per match of each target row, one for a row that matches nothing
C6_RowsAreSumOfMatches ==
    pc = "final_copy" =>
        NumRows(Get(store, Resolve(envWorkspace, corals_input))) = ClaimedRows(TargetRows)

\* C6, amended: every join of the chain yields exactly the target's rows, and so
\* does the output layer
C6_RowsAreTargetRows ==
    /\ \A i \in DOMAIN joinCalls : joinCalls[i].rows = TargetRows
    /\ pc = "final_copy" =>
          NumRows(Get(store, Resolve(envWorkspace, corals_input))) = TargetRows
    /\ ("FinalCopy" \in StepsDone /\ Exists(store, corals_output)) =>
          NumRows(Get(store, corals_output)) = TargetRows

\* C6 witness: three layers are joined, a target row matches several polygons,
\* and the output is written
C6_Witness ==
    /\ pc = "finally"
    /\ Len(joinCalls) = 3
    /\ Exists(store, corals_output)
    /\ \E r \in 1..TargetRows : MatchesInAll(r) > 1

LoopSteps == {"copy", "project", "delete", "rename", "join"}

FailedInLoop(i) == trace[i].step = "HostFailure" /\ trace[i].at \in LoopSteps

\* C9: once a step of the loop has failed, the only steps that follow are one
\* handler and then the finally block: no layer is copied, changed or joined any
\* more, nothing is written to the output location, nothing is recoded
C9_FailureIsTerminal ==
    \A i \in DOMAIN trace :
        FailedInLoop(i) =>
            /\ Len(trace) <= i + 2
            /\ Len(trace) >= i + 1 => trace[i + 1].step \in Handlers
            /\ Len(trace) >= i + 2 => trace[i + 2].step = "Finally"
            /\ pc = (IF Len(trace) = i THEN "except"
                     ELSE IF Len(trace) = i + 1 THEN "finally" ELSE "done")
            /\ Len(joinCalls) = trace[i].layer - 1
            /\ ~ Exists(store, corals_output)
            /\ "FinalCopy" \notin StepsDone
            /\ "RecodeField" \notin StepsDone
            /\ dictLog = <<>>

\* C9 witness: the join of the first of several layers failed and the run is over
C9_Witness ==
    /\ pc = "done"
    /\ Len(features) >= 2
    /\ \E i \in DOMAIN trace :
          FailedInLoop(i) /\ trace[i].at = "join" /\ trace[i].layer = 1

\* C10: after the run every layer of the input workspace and the target layer
\* are as they were, and after a run without error the output layer exists
C10_InputsUntouched ==
    pc = "done" =>
        /\ \A b \in DOMAIN store0[workspace] :
              /\ b \in DOMAIN store[workspace]
              /\ store[workspace][b] = store0[workspace][b]
        /\ Exists(store, TargetRef)
        /\ Get(store, TargetRef) = Get(store0, TargetRef)
        /\ errors = <<>> => Exists(store, corals_output)

\* C7: the names given by the rename step are at most 31 characters long and
\* no two of them are equal
C7_NamesShortAndDistinct ==
    /\ \A rn \in {rnA, rnB} : rn.renamed => Len(rn.newName) <= 31
    /\ (rnA.renamed /\ rnB.renamed) => rnA.newName # rnB.newName

\* C8: a reserved field keeps its name; any other field is named layer + field
\* when that is at most 31 characters, else the last 30 characters of it
C8_NameIsConcatenationOrItsTail ==
    \A rn \in {rnA, rnB} \ {NoRename} :
        LET full == rn.layer \o rn.field IN
        IF rn.field \in {OBJECTID, Shape, Shape_Length, Shape_Area}
        THEN ~ rn.renamed /\ rn.newName = rn.field
        ELSE /\ rn.renamed
             /\ Len(full) <= 31 => rn.newName = full
             /\ Len(full) > 31 =>
                   /\ Len(rn.newName) = 30
                   /\ \A i \in 1..30 : rn.newName[i] = full[Len(full) - 30 + i]

\* C8 witness: one name was cut, one was kept whole, at the limit of 31
C8_Witness ==
    /\ rnA.renamed /\ Len(rnA.layer \o rnA.field) = 32 /\ Len(rnA.newName) = 30
    /\ rnB.renamed /\ Len(rnB.layer \o rnB.field) = 31 /\ Len(rnB.newName) = 31

(***************************************************************************)
(* Properties of the recode pass.                                          *)
(***************************************************************************)
Distinct == Range(rcCol)

NonNull == Distinct \ {None}

FirstRow(v) == Min({i \in DOMAIN rcCol : rcCol[i] = v})

\* the position of v among the non-null values, in order of first encounter
SeenOrder(v) == Cardinality({w \in NonNull : FirstRow(w) <= FirstRow(v)})

Keys == {rcOut.attributes[i].key : i \in DOMAIN rcOut.attributes}

Codes == {rcOut.attributes[i].value : i \in DOMAIN rcOut.attributes}

\* what C4 says of the keys, the order of the codes and the rows
C4_Common ==
    /\ rcOut.recoded
    /\ Keys = Distinct
    /\ Len(rcOut.attributes) = Cardinality(Distinct)
    /\ None \in Distinct => DictGet(rcOut.attributes, None) = 0
    /\ \A v \in NonNull : DictGet(rcOut.attributes, v) = SeenOrder(v)
    /\ Len(rcOut.vals) = Len(rcCol)
    /\ \A i \in DOMAIN rcCol :
          IF rcCol[i] = None
          THEN rcOut.vals[i] = Str("0")
          ELSE rcOut.vals[i] = IntV(DictGet(rcOut.attributes, rcCol[i]))
    /\ rcLog = <<[field |-> <<"f">>, attributes |-> rcOut.attributes]>>

\* C4, as claimed: the codes of a field of at most 6 distinct values are
\* exactly 0..k, k the number of its non-null values
C4_BijectionOntoZeroToK ==
    (rcPc = "done" /\ Cardinality(Distinct) <= 6) =>
        /\ C4_Common
        /\ Codes = 0..Cardinality(NonNull)

\* C4, amended: the codes are 0..k when None occurs in the field and 1..k when
\* it does not
C4_BijectionOntoCodes ==
    (rcPc = "done" /\ Cardinality(Distinct) <= 6) =>
        /\ C4_Common
        /\ Codes = (IF None \in Distinct THEN {0} ELSE {}) \cup 1..Cardinality(NonNull)

\* C4 witness: a field of None and five texts, some repeated, was recoded
C4_Witness ==
    /\ rcPc = "done"
    /\ None \in Distinct
    /\ Cardinality(Distinct) = 6
    /\ Len(rcCol) > 6
    /\ rcCol[1] # None
    /\ rcOut.recoded

\* C5: a field of more than 6 distinct values keeps every row and gets no
\* dictionary; a field of exactly 6 is recoded and gets one
C5_ManyValuesLeftAlone ==
    /\ (rcPc = "done" /\ Cardinality(Distinct) > 6) =>
          /\ rcOut.vals = rcCol
          /\ ~ rcOut.recoded
          /\ rcLog = <<>>
    /\ (rcPc = "done" /\ Cardinality(Distinct) = 6) =>
          /\ rcOut.recoded
          /\ Len(rcLog) = 1

\* C5 witness: a field of None and six texts was scanned
C5_Witness ==
    /\ rcPc = "done"
    /\ Cardinality(Distinct) = 7
    /\ None \in Distinct
    /\ ~ rcOut.recoded

====
